---- MODULE Spec2Model ----
(***************************************************************************)
(* A model of the Olist dashboard script (app_olist.py): the table loader  *)
(* load_data, the top-to-bottom run of the dashboard in its two modes, and *)
(* the derived-field and aggregation pipelines of the individual tabs.     *)
(*                                                                         *)
(* Four specifications share the variables:                                *)
(*   Spec          load_data followed by one run of the script, with every *)
(*                 table abstracted to its column set and its emptiness;   *)
(*   SpecDelivery  the delivery derivations (df_del, bucket, br_del,       *)
(*                 delay) on small concrete orders tables;                 *)
(*   SpecCustomer  the repurchase and payment pipelines on small concrete  *)
(*                 orders, customers, reviews and payments tables;         *)
(*   SpecCut       the two pd.cut partitions on one delivery duration.     *)
(***************************************************************************)
EXTENDS Integers, Sequences, FiniteSets, TLC

VARIABLES
    \* ---- load_data and the run of the script (Spec)
    pc,          \* position of the script
    ki,          \* index in file_bases of the next key load_data processes
    files,       \* what the probes of the key processed last were answered
    p,           \* load_data's local p: the last path probed, <<suffix, ext>>
    found,       \* load_data's local found
    loaded,      \* load_data's dict loaded, then the 8 module-level tables
    diag,        \* the diagnostics emitted so far
    mode,        \* the sidebar radio
    theme,       \* the comparison-mode selectbox
    df_del,      \* the frame df_del of main mode (columns and emptiness)
    \* ---- concrete tables (SpecDelivery, SpecCustomer)
    orders, order_reviews, payments, customers,
    order_items, products, translation,
    dur,         \* one delivery duration, the input of the two pd.cut calls
    inp,         \* the input of an operation checked on its own
    out          \* the derived tables computed so far, by name

vars == <<pc, ki, files, p, found, loaded, diag, mode, theme, df_del,
          orders, order_reviews, payments, customers,
          order_items, products, translation, dur, inp, out>>

runVars  == <<pc, ki, files, p, found, loaded, diag, mode, theme, df_del>>
dataVars == <<orders, order_reviews, payments, customers,
              order_items, products, translation, dur, inp, out>>
inVars   == <<orders, order_reviews, payments, customers,
              order_items, products, translation, dur, inp>>

\* a nullable cell: <<>> is NaT, NaN or None, <<v>> the value v
Null == <<>>
Some(v) == <<v>>

-----------------------------------------------------------------------------
(* load_data                                                               *)

\* the keys of file_bases, in the dict's insertion order
Keys == <<"orders", "order_items", "order_reviews", "products",
          "payments", "customers", "sellers", "translation">>

Tables == {Keys[i] : i \in 1..Len(Keys)}

\* the outer and the inner probing loop
SuffixesRawFirst == <<"", "_cleaned">>
Suffixes == <<"_cleaned", "">>

Exts == <<".parquet", ".csv">>

Paths == {<<Suffixes[s], Exts[e]>> : s \in 1..Len(Suffixes), e \in 1..Len(Exts)}

\* what a probe of one path can meet: os.path.exists false, a file whose
\* read raises, a file that is read
FileStates == {"absent", "corrupt", "ok"}

\* the columns of each dataset that the script reads
Schema ==
    [t \in Tables |->
        CASE t = "orders" ->
               {"order_id", "customer_id", "order_purchase_timestamp",
                "order_delivered_customer_date", "order_estimated_delivery_date"}
          [] t = "order_items" -> {"order_id", "product_id", "seller_id", "price"}
          [] t = "order_reviews" -> {"order_id", "review_score"}
          [] t = "products" -> {"product_id", "product_category_name"}
          [] t = "payments" ->
               {"order_id", "payment_type", "payment_installments", "payment_value"}
          [] t = "customers" ->
               {"customer_id", "customer_unique_id", "customer_state"}
          [] t = "sellers" -> {"seller_id", "seller_state"}
          [] t = "translation" ->
               {"product_category_name", "product_category_name_english"}]

\* pd.DataFrame(): no columns, no rows
EmptyDataFrame == [columns |-> {}, empty |-> TRUE]

\* pd.read_parquet(p) / pd.read_csv(p) of a readable file of dataset t
ReadFile(t) == [columns |-> Schema[t], empty |-> FALSE]

\* the inner loop, from the ext at index e on, for the suffix at index s
RECURSIVE ProbeExt(_, _, _)
ProbeExt(fs, s, e) ==
    LET path == <<Suffixes[s], Exts[e]>> IN
    IF fs[path] = "ok"
    THEN [found |-> TRUE, p |-> path]                \* found = True; break
    ELSE IF e = Len(Exts)                            \* absent, or except: continue
         THEN [found |-> FALSE, p |-> path]
         ELSE ProbeExt(fs, s, e + 1)

\* the outer loop, from the suffix at index s on
RECURSIVE ProbeSuffix(_, _)
ProbeSuffix(fs, s) ==
    LET r == ProbeExt(fs, s, 1) IN
    IF r.found \/ s = Len(Suffixes)                  \* if found: break
    THEN r
    ELSE ProbeSuffix(fs, s + 1)

\* one iteration of `for key, base in file_bases.items()`
LoadKey ==
    /\ pc = "load"
    /\ ki <= Len(Keys)
    /\ \E fs \in [Paths -> FileStates] :
         LET r == ProbeSuffix(fs, 1) IN
         /\ files' = fs
         /\ p' = r.p
         /\ found' = r.found
         /\ loaded' = (Keys[ki] :> (IF r.found THEN ReadFile(Keys[ki])
                                                 ELSE EmptyDataFrame)) @@ loaded
    /\ ki' = ki + 1
    /\ UNCHANGED <<pc, diag, mode, theme, df_del>>
    /\ UNCHANGED dataVars

NoProbe == [q \in Paths |-> "absent"]

\* the timestamp conversion of the orders frame and the return; the script
\* then reads the sidebar radio
LoadReturn ==
    /\ pc = "load"
    /\ ki = Len(Keys) + 1
    /\ \E m \in {"main", "compare"} : mode' = m
    /\ pc' = "sidebar"
    /\ files' = NoProbe
    /\ found' = FALSE
    /\ UNCHANGED <<ki, p, loaded, diag, theme, df_del>>
    /\ UNCHANGED dataVars

-----------------------------------------------------------------------------
(* one run of the script after load_data: a frame is its column set and    *)
(* its emptiness, and a missing column is the KeyError that ends the run   *)

Has(t, cs) == cs \subseteq loaded[t].columns

\* lines 96-99: df_del, with its two derived columns when it is not empty
MainDfDel ==
    /\ pc = "sidebar"
    /\ mode = "main"
    /\ IF Has("orders", {"order_delivered_customer_date"})
       THEN \E e \in BOOLEAN :
              /\ e \/ Has("orders", {"order_purchase_timestamp",
                                     "order_estimated_delivery_date"})
              /\ df_del' = [columns |-> loaded["orders"].columns \cup
                                (IF e THEN {} ELSE {"delivery_days", "is_delayed"}),
                            empty |-> e]
              /\ pc' = "tab0"
       ELSE pc' = "crashed" /\ UNCHANGED df_del
    /\ UNCHANGED <<ki, files, p, found, loaded, diag, mode, theme>>
    /\ UNCHANGED dataVars

\* a later step of the run: it goes on to `next` when `ok`, else it raises
Step(at, ok, next) ==
    /\ pc = at
    /\ pc' = IF ok THEN next ELSE "crashed"
    /\ UNCHANGED <<ki, files, p, found, loaded, diag, mode, theme>>
    /\ UNCHANGED dataVars

ReviewsOk == Has("order_reviews", {"order_id", "review_score"})

\* lines 101-138
Tab0 ==
    /\ Step("tab0",
            df_del.empty \/ ("order_id" \in df_del.columns /\ ReviewsOk),
            "tab1")
    /\ df_del' = IF df_del.empty \/ ~ReviewsOk THEN df_del
                 ELSE [df_del EXCEPT !.columns = @ \cup {"bucket"}]

\* the two merges that build cat_df (lines 142-143) and cat_ts (line 367)
CategoryJoinOk ==
    /\ Has("products", {"product_id", "product_category_name"})
    /\ Has("order_items", {"product_id"})
    /\ Has("translation", {"product_category_name"})

\* lines 140-198
Tab1 ==
    /\ Step("tab1",
            /\ CategoryJoinOk
            /\ {"order_id", "delivery_days"} \subseteq df_del.columns
            /\ Has("order_items", {"order_id"})
            /\ ReviewsOk
            /\ Has("translation", {"product_category_name_english"}),
            "tab2")
    /\ UNCHANGED df_del

\* lines 200-228
Tab2 ==
    /\ Step("tab2",
            /\ Has("payments", {"order_id", "payment_type",
                                "payment_installments", "payment_value"})
            /\ ReviewsOk,
            "tab3")
    /\ UNCHANGED df_del

PaymentSumOk == Has("payments", {"order_id", "payment_value"})

\* lines 230-259
Tab3 ==
    /\ Step("tab3",
            /\ Has("orders", {"order_id", "customer_id"})
            /\ Has("customers", {"customer_id", "customer_state"})
            /\ PaymentSumOk
            /\ {"order_id", "customer_id", "delivery_days"} \subseteq df_del.columns
            /\ ReviewsOk,
            "tab4")
    /\ UNCHANGED df_del

\* lines 261-290
Tab4 ==
    /\ Step("tab4", Has("orders", {"order_purchase_timestamp"}), "tab5")
    /\ UNCHANGED df_del

\* lines 292-363
\* line 320: pd.qcut raises on prices whose quantile edges coincide (QCut
\* below); the frames of this run do not hold the prices, so either outcome
Tab5 ==
    /\ \E qcut_ok \in BOOLEAN :
       Step("tab5",
            /\ Has("orders", {"order_id", "customer_id"})
            /\ Has("customers", {"customer_id", "customer_unique_id"})
            /\ ReviewsOk
            /\ PaymentSumOk
            /\ df_del.empty \/ Has("order_items", {"order_id", "price"})
            /\ df_del.empty \/ qcut_ok
            /\ Has("sellers", {"seller_state", "seller_id"})
            /\ Has("customers", {"customer_state", "customer_id"})
            /\ {"order_id", "is_delayed"} \subseteq df_del.columns,
            "tab6")
    /\ UNCHANGED df_del

\* lines 365-390
Tab6 ==
    /\ Step("tab6",
            /\ CategoryJoinOk
            /\ Has("order_items", {"order_id"})
            /\ Has("orders", {"order_id", "order_purchase_timestamp"})
            /\ Has("translation", {"product_category_name_english"}),
            "done")
    /\ UNCHANGED df_del

Themes == 1..5

\* lines 392-399: the sidebar of comparison mode, f_ord and f_pay
CmpFilter ==
    /\ pc = "sidebar"
    /\ mode = "compare"
    /\ \E th \in Themes : theme' = th
    /\ pc' = IF /\ Has("orders", {"order_purchase_timestamp", "customer_id", "order_id"})
                /\ Has("customers", {"customer_id"})
                /\ PaymentSumOk
             THEN "theme" ELSE "crashed"
    /\ UNCHANGED <<ki, files, p, found, loaded, diag, mode, df_del>>
    /\ UNCHANGED dataVars

\* lines 401-497: the branch of the selected theme
CmpTheme ==
    /\ Step("theme",
            CASE theme = 1 ->
                   /\ Has("orders", {"order_delivered_customer_date"})
                   /\ Has("customers", {"customer_state"})
              [] theme = 2 -> Has("customers", {"customer_state"})
              [] theme = 3 -> Has("payments", {"payment_type", "payment_value"})
              [] theme = 4 ->
                   /\ Has("order_items", {"order_id", "seller_id"})
                   /\ ReviewsOk
              [] theme = 5 ->
                   /\ Has("orders", {"order_id", "order_delivered_customer_date",
                                     "order_estimated_delivery_date"})
                   /\ ReviewsOk,
            "done")
    /\ UNCHANGED df_del

NoPath == <<"", "">>
NoFrame == [columns |-> {}, empty |-> TRUE]
NoRows == <<>>

InitRun ==
    /\ pc = "load"
    /\ ki = 1
    /\ files = NoProbe
    /\ p = NoPath
    /\ found = FALSE
    /\ loaded = [t \in {} |-> EmptyDataFrame]
    /\ diag = {}
    /\ mode = "main"
    /\ theme = 1
    /\ df_del = NoFrame

InitNoData ==
    /\ orders = NoRows
    /\ order_reviews = NoRows
    /\ payments = NoRows
    /\ customers = NoRows
    /\ order_items = NoRows
    /\ products = NoRows
    /\ translation = NoRows
    /\ dur = Null
    /\ inp = Null
    /\ out = [n \in {} |-> NoRows]

Init == InitRun /\ InitNoData

Next ==
    \/ LoadKey
    \/ LoadReturn
    \/ MainDfDel
    \/ Tab0
    \/ Tab1
    \/ Tab2
    \/ Tab3
    \/ Tab4
    \/ Tab5
    \/ Tab6
    \/ CmpFilter
    \/ CmpTheme

Spec == Init /\ [][Next]_vars

-----------------------------------------------------------------------------
(* Concrete tables.  A table is a sequence of rows, a row a record; a      *)
(* nullable cell is <<>> (NaT, NaN) or <<v>>.  Timestamps are whole days.  *)

MaxOrders == 2
MaxCustomers == 2
MaxDuration == 120
MaxItems == 2
MaxProducts == 2
MaxCategories == 2
MaxPrices == 3
MaxPrice == 4
MaxRows == 2

RECURSIVE Flatten(_)
Flatten(ss) == IF ss = <<>> THEN <<>> ELSE Head(ss) \o Flatten(Tail(ss))

Range(S) == {S[i] : i \in 1..Len(S)}

\* the elements of a finite set of integers, ascending
RECURSIVE Ascending(_)
Ascending(S) ==
    IF S = {} THEN <<>>
    ELSE LET m == CHOOSE x \in S : \A y \in S : x <= y
         IN <<m>> \o Ascending(S \ {m})

RECURSIVE SumSeq(_)
SumSeq(S) == IF S = <<>> THEN 0 ELSE Head(S) + SumSeq(Tail(S))

\* df[col] as a sequence of cells
Values(S, col) == [i \in DOMAIN S |-> S[i][col]]

\* df[cols]
Project(S, cols) == [i \in DOMAIN S |-> [c \in cols |-> S[i][c]]]

\* pd.merge(L, R, on=key): inner join, left order kept, the key the only
\* column the two sides share
Merge(L, R, key) ==
    Flatten([i \in DOMAIN L |->
        LET M == SelectSeq(R, LAMBDA r : r[key] = L[i][key])
        IN [j \in DOMAIN M |-> L[i] @@ M[j]]])

\* (a - b).dt.days: NaN as soon as one side is NaT
TdDays(a, b) == IF a = Null \/ b = Null THEN Null ELSE Some(a[1] - b[1])

\* a > b on timestamps: a comparison with NaT is False
Later(a, b) == a # Null /\ b # Null /\ a[1] > b[1]

\* Series.fillna(v)
FillNa(x, v) == IF x = Null THEN Some(v) ELSE x

\* pd.cut(x, bins, labels): the label of the right-closed bin holding x, NaN
\* for NaN and for a value in no bin
Cut(x, bins, labels) ==
    IF x = Null THEN Null
    ELSE LET I == {i \in 1..Len(labels) : bins[i] < x[1] /\ x[1] <= bins[i + 1]}
         IN IF I = {} THEN Null ELSE Some(labels[CHOOSE i \in I : TRUE])

\* line 105 (the labels stand for '0-3일', '4-7일', '8-14일', '15일+')
BucketBins == <<-1, 3, 7, 14, 100>>
BucketLabels == <<"0-3", "4-7", "8-14", "15+">>
Bucket(d) == Cut(d, BucketBins, BucketLabels)

\* line 321 (the labels stand for '빠름', '보통', '느림')
SpeedBins == <<-1, 7, 14, 100>>
SpeedLabels == <<"fast", "normal", "slow">>
SpeedTier(d) == Cut(d, SpeedBins, SpeedLabels)

\* orders.dropna(subset=['order_delivered_customer_date'])
DropNaDelivered(O) == SelectSeq(O, LAMBDA r : r.order_delivered_customer_date # Null)

\* lines 96-99
DfDel(O) ==
    LET D == DropNaDelivered(O) IN
    IF D = <<>> THEN D
    ELSE [i \in DOMAIN D |-> D[i] @@
            [delivery_days |-> TdDays(D[i].order_delivered_customer_date,
                                      D[i].order_purchase_timestamp),
             is_delayed |-> Later(D[i].order_delivered_customer_date,
                                  D[i].order_estimated_delivery_date)]]

\* .dt.year of a day number
YearOf(t) == t[1] \div 365

\* line 395: the years of the purchase timestamps (NaN for NaT filtered out
\* by line 396)
AllYears(O) ==
    {YearOf(r.order_purchase_timestamp) :
        r \in {q \in Range(O) : q.order_purchase_timestamp # Null}}

\* line 398: f_ord for the selected year (sel_y is None when there is none)
FOrd(O, C, sel_y) ==
    Merge(SelectSeq(O, LAMBDA r : /\ r.order_purchase_timestamp # Null
                                  /\ sel_y # Null
                                  /\ YearOf(r.order_purchase_timestamp) = sel_y[1]),
          C, "customer_id")

\* lines 405-407
BrDel(F) ==
    LET D == DropNaDelivered(F) IN
    IF D = <<>> THEN D
    ELSE [i \in DOMAIN D |-> D[i] @@
            [days |-> TdDays(D[i].order_delivered_customer_date,
                             D[i].order_purchase_timestamp)]]

\* lines 482-483
DelayFrame(O, R) ==
    LET M == Merge(O, R, "order_id") IN
    [i \in DOMAIN M |-> M[i] @@
        [delay |-> FillNa(TdDays(M[i].order_delivered_customer_date,
                                 M[i].order_estimated_delivery_date), 0)]]

\* payments.groupby('order_id')['payment_value'].sum().reset_index()
PaymentSum(P) ==
    LET K == Ascending({r.order_id : r \in Range(P)}) IN
    [k \in DOMAIN K |->
        [order_id |-> K[k],
         payment_value |->
             SumSeq(Values(SelectSeq(P, LAMBDA r : r.order_id = K[k]),
                           "payment_value"))]]

\* line 202
PayDf(P, R) == Merge(P, Project(R, {"order_id", "review_score"}), "order_id")

\* line 232
GeoRev(O, C, P) ==
    Merge(Merge(Project(O, {"order_id", "customer_id"}),
                Project(C, {"customer_id", "customer_state"}), "customer_id"),
          PaymentSum(P), "order_id")

\* line 296
OrdUsers(O, C) ==
    Merge(Project(O, {"order_id", "customer_id"}),
          Project(C, {"customer_id", "customer_unique_id"}), "customer_id")

\* the key rep_data groups by
RepKeyCustomerId(r) == r.customer_id
RepKey(r) == r.customer_unique_id

IsRepurchase(n) == n > 1

\* lines 297-298
RepData(OU) ==
    LET K == Ascending({RepKey(r) : r \in Range(OU)}) IN
    [k \in DOMAIN K |->
        LET n == Cardinality({r.order_id : r \in {q \in Range(OU) : RepKey(q) = K[k]}})
        IN [customer_unique_id |-> K[k], order_id |-> n,
            is_repurchase |-> IsRepurchase(n)]]

\* lines 299-301
Ins1(O, C, R, P) ==
    LET a == Merge(Merge(Project(R, {"order_id", "review_score"}),
                         Project(O, {"order_id", "customer_id"}), "order_id"),
                   Project(C, {"customer_id", "customer_unique_id"}), "customer_id")
        b == Merge(a, Project(RepData(OrdUsers(O, C)),
                              {"customer_unique_id", "is_repurchase"}),
                   "customer_unique_id")
    IN Merge(b, PaymentSum(P), "order_id")

\* line 399
FPay(F, P) == Merge(F, PaymentSum(P), "order_id")

-----------------------------------------------------------------------------
(* The derivations on concrete tables                                      *)

\* pd.merge(L, R, on=key, how='left'): a left row without a match is kept,
\* with NaN in the columns rcols that R brings
MergeLeft(L, R, key, rcols) ==
    Flatten([i \in DOMAIN L |->
        LET M == SelectSeq(R, LAMBDA r : r[key] = L[i][key])
        IN IF M = <<>> THEN <<L[i] @@ [c \in rcols |-> Null]>>
           ELSE [j \in DOMAIN M |-> L[i] @@ M[j]]])

\* Series.mean(): NaN cells are skipped; the mean is kept as the fraction
\* <<sum, count>>, and is NaN when no cell is left
MeanOf(cells) ==
    LET V == SelectSeq(cells, LAMBDA c : c # Null)
    IN IF V = <<>> THEN Null
       ELSE <<SumSeq([i \in DOMAIN V |-> V[i][1]]), Len(V)>>

\* lines 142-143 (and 367): order_items joined to the category of its
\* product, then to the English name of the category, with how='left'
CatDf(I, P, T) ==
    MergeLeft(Merge(I, Project(P, {"product_id", "product_category_name"}),
                    "product_id"),
              T, "product_category_name", {"product_category_name_english"})

\* lines 145-146: the items of the delivered and reviewed orders
CatMerged(CD, D, R) ==
    Merge(Merge(CD, Project(D, {"order_id", "delivery_days"}), "order_id"),
          Project(R, {"order_id", "review_score"}), "order_id")

\* the keys of groupby('product_category_name_english'): a row whose key is
\* NaN belongs to no group (dropna=True is the default of groupby)
EnglishKeys(F) ==
    {r.product_category_name_english[1] :
        r \in {x \in Range(F) : x.product_category_name_english # Null}}

\* line 147: one row per English category name, keys ascending; order_count
\* is the column the script renames to '주문건수', mean_days '평균배송일',
\* mean_score '평균평점'
CatStats(CM) ==
    LET K == Ascending(EnglishKeys(CM)) IN
    [i \in DOMAIN K |->
        LET G == SelectSeq(CM, LAMBDA r :
                     r.product_category_name_english = Some(K[i]))
        IN [product_category_name_english |-> K[i],
            order_count |-> Len(G),
            mean_days |-> MeanOf(Values(G, "delivery_days")),
            mean_score |-> MeanOf([j \in DOMAIN G |-> Some(G[j].review_score)])]]

\* .dt.to_period('M') of a day number
MonthOf(t) == t[1] \div 30

\* lines 367-369: the items with the month of their order
CatTs(CD, O) ==
    LET M == Merge(CD, Project(O, {"order_id", "order_purchase_timestamp"}),
                   "order_id")
    IN [i \in DOMAIN M |-> M[i] @@ [month |-> MonthOf(M[i].order_purchase_timestamp)]]

\* line 370: groupby(['product_category_name_english', 'month']).size()
CatMonthly(TS) ==
    LET K == Ascending(EnglishKeys(TS))
        Mo(k) == Ascending({r.month : r \in {x \in Range(TS) :
                     x.product_category_name_english = Some(k)}})
    IN Flatten([i \in DOMAIN K |->
          [j \in DOMAIN Mo(K[i]) |->
              [product_category_name_english |-> K[i],
               month |-> Mo(K[i])[j],
               order_count |-> Len(SelectSeq(TS, LAMBDA r :
                   /\ r.product_category_name_english = Some(K[i])
                   /\ r.month = Mo(K[i])[j]))]]])

\* line 106: groupby(['bucket', 'is_delayed'])['review_score'].mean().
\* bucket is a Categorical (the result of pd.cut). With observed=True the
\* result has the key pairs that occur; with observed=False it has every
\* category of bucket paired with every is_delayed value that occurs, the
\* mean NaN where no row falls. The call leaves observed to the default,
\* which is False or True with the pandas release installed.
AggDel(B, R, observed) ==
    LET M == Merge(B, R, "order_id")
        Ds == {r.is_delayed : r \in Range(M)}
        G(l, d) == SelectSeq(M, LAMBDA r : r.bucket = Some(l) /\ r.is_delayed = d)
        Row(l, d) ==
            IF G(l, d) # <<>> \/ (~observed /\ d \in Ds)
            THEN <<[bucket |-> l, is_delayed |-> d,
                    review_score |->
                        MeanOf([j \in DOMAIN G(l, d) |->
                                   Some(G(l, d)[j].review_score)])]>>
            ELSE <<>>
    IN Flatten([i \in DOMAIN BucketLabels |->
           Row(BucketLabels[i], FALSE) \o Row(BucketLabels[i], TRUE)])

\* DataFrame.sort_values(col, ascending=False) with the default
\* kind='quicksort': the rows in non-increasing order of col. quicksort is
\* not stable and no second sort key is given, so rows with equal col come
\* in an order that the sorting routine of the installed numpy picks: every
\* such order is a possible result.
SortValuesDesc(S, col) ==
    {T \in [DOMAIN S -> Range(S)] :
        /\ \A i, j \in DOMAIN S : i # j => T[i] # T[j]
        /\ \A i, j \in DOMAIN S : i < j => T[i][col] >= T[j][col]}

\* DataFrame.head(n)
HeadN(S, n) == SubSeq(S, 1, IF Len(S) < n THEN Len(S) ELSE n)

\* line 151: head(10); line 371: head(5)
Top10 == 10
Top5 == 5

\* a sequence of integers in ascending order
RECURSIVE SortAsc(_)
SortAsc(S) ==
    IF S = <<>> THEN <<>>
    ELSE LET m == CHOOSE i \in DOMAIN S : \A j \in DOMAIN S : S[i] <= S[j]
         IN <<S[m]>> \o SortAsc(SubSeq(S, 1, m - 1) \o SubSeq(S, m + 1, Len(S)))

\* line 320: pd.qcut(price, 3): the labels stand for '저가', '중가', '고가'
NumTiers == 3
PriceLabels == <<"low", "mid", "high">>

\* the bin edges of qcut: the quantiles 0, 1/3, 2/3, 1 of the prices with
\* linear interpolation between neighbours, here each multiplied by NumTiers
\* to stay in the integers
QCutEdges(P) ==
    LET v == SortAsc(P)
        n == Len(P)
    IN [k \in 0..NumTiers |->
           LET lo == (k * (n - 1)) \div NumTiers
               fr == (k * (n - 1)) % NumTiers
           IN IF fr = 0 THEN NumTiers * v[lo + 1]
              ELSE NumTiers * v[lo + 1] + fr * (v[lo + 2] - v[lo + 1])]

\* duplicates='raise' is the default of qcut: two equal edges raise
\* ValueError('Bin edges must be unique')
QCutRaises(P) ==
    \E j, k \in 0..NumTiers : j # k /\ QCutEdges(P)[j] = QCutEdges(P)[k]

\* the tier of every price: the first bin whose right edge is not below it
\* (bins are right-closed, the lowest edge is included)
QCut(P) ==
    [i \in DOMAIN P |->
        PriceLabels[CHOOSE k \in 1..NumTiers :
            /\ NumTiers * P[i] <= QCutEdges(P)[k]
            /\ \A j \in 1..(k - 1) : NumTiers * P[i] > QCutEdges(P)[j]]]

\* lines 18-21, get_naver_api_keys. i.secrets is the secret store:
\* "no_store" (no secrets file: st.secrets raises on any lookup, the `in`
\* test included), "no_section" (no naver_api section), "no_key" (a section
\* without client_id or client_secret: the subscript raises KeyError),
\* "empty" (a section with an empty credential) or "ok". i.env_id and
\* i.env_secret are os.getenv of the two variables: "unset" (None), "empty"
\* or "set". The result is the pair of credentials, each "set" or not, or
\* KeysRaised when the lookup raises.
KeysRaised == <<"raised">>
Raised == "raised"
GetNaverApiKeys(i) ==
    IF i.secrets \in {"no_store", "no_key"} THEN KeysRaised
    ELSE IF i.secrets = "ok" THEN <<"set", "set">>
    ELSE IF i.secrets = "empty" THEN <<"empty", "set">>
    ELSE <<i.env_id, i.env_secret>>

\* lines 23-37, fetch_naver_trend. i.http is what requests.post does: "json"
\* (status 200, a JSON body), "garbage" (status 200, res.json() raises),
\* "non200", or "error" (post itself raises). get_naver_api_keys is called
\* on line 25, before the try of line 34.
FetchNaverTrend(i) ==
    LET keys == GetNaverApiKeys(i) IN
    IF keys = KeysRaised THEN Raised
    ELSE IF keys[1] # "set" \/ keys[2] # "set" THEN "None"
    ELSE IF i.http = "json" THEN "json"
    ELSE "None"

\* line 42: data_path, chosen once, before the loop over the datasets, by
\* the existence of the DATA_1 directory alone. i.data1 is that existence,
\* i.primary the files of one dataset in DATA_1, i.fallback those in the
\* directory of the script.
DataPath(i) == IF i.data1 THEN "DATA_1" ELSE "base_path"

\* lines 49-61 for one dataset: every probe is made in data_path
LoadDataset(i) ==
    LET fs == IF DataPath(i) = "DATA_1" THEN i.primary ELSE i.fallback
        r == ProbeSuffix(fs, 1)
    IN [found |-> r.found,
        dir |-> IF r.found THEN DataPath(i) ELSE "",
        p |-> IF r.found THEN r.p ELSE NoPath]

\* line 64: the three columns of orders that load_data converts
TimestampCols == {"order_purchase_timestamp", "order_delivered_customer_date",
                  "order_estimated_delivery_date"}

\* a cell of a column as read from a csv file: NaN (an empty field), the
\* text of a date, or a text that is no date
DateText(d) == <<"date", d>>
NoDateText == <<"text", 0>>

\* pd.to_datetime(cell, errors='coerce'): the day of a date text, NaT for
\* NaN and for a text that cannot be parsed
ToDatetime(c) ==
    IF c = Null THEN Null
    ELSE IF c[1] = "date" THEN Some(c[2])
    ELSE Null

\* lines 62-66 on the orders frame F as read: F.columns its columns, F.rows
\* its rows, F.datetime the columns of a timestamp dtype. DataFrame.empty is
\* true of a frame without rows as of one without columns.
NormalizeOrders(F) ==
    IF F.rows = <<>> \/ F.columns = {} THEN F
    ELSE [columns |-> F.columns,
          rows |-> [i \in DOMAIN F.rows |->
                      [c \in F.columns |->
                          IF c \in TimestampCols THEN ToDatetime(F.rows[i][c])
                          ELSE F.rows[i][c]]],
          datetime |-> F.datetime \cup (TimestampCols \cap F.columns)]

-----------------------------------------------------------------------------
(* preprocess_files of preprocess_olist.py on one file                     *)

\* line 25: str(col).strip().lower() on the column names of the file
StripLower ==
    [c \in {" Price", "Ship_Date", "Unnamed: 0"} |->
        CASE c = " Price" -> "price"
          [] c = "Ship_Date" -> "ship_date"
          [] c = "Unnamed: 0" -> "unnamed: 0"]

RenameColumns(F) ==
    [columns |-> {StripLower[c] : c \in F.columns},
     rows |-> [i \in DOMAIN F.rows |->
                 [c \in {StripLower[x] : x \in F.columns} |->
                     F.rows[i][CHOOSE x \in F.columns : StripLower[x] = c]]]]

\* lines 30-32: drop_duplicates keeps the first of equal rows (NaN cells
\* count as equal)
RECURSIVE DropDuplicates(_)
DropDuplicates(R) ==
    IF R = <<>> THEN <<>>
    ELSE LET front == DropDuplicates(SubSeq(R, 1, Len(R) - 1))
         IN IF R[Len(R)] \in Range(front) THEN front
            ELSE Append(front, R[Len(R)])

\* is_numeric_dtype: price is the numeric column of the file
NumericCols == {"price"}

\* lines 38-45: a numeric column with a NaN gets the mean of its other cells
\* in place of every NaN. The cells of such a column are kept as fractions
\* <<numerator, denominator>> over the number of its non-NaN cells; a
\* column of NaN only stays as it is (its mean is NaN).
FillMean(R, cols) ==
    [i \in DOMAIN R |->
        [c \in cols |->
            LET col == Values(R, c)
                m == MeanOf(col)
            IN IF c \notin NumericCols \/ m = Null
                  \/ \A j \in DOMAIN R : R[j][c] # Null
               THEN R[i][c]
               ELSE IF R[i][c] = Null THEN m
               ELSE <<R[i][c][1] * m[2], m[2]>>]]

\* lines 58-63: a column name holding '_at', 'date' or 'timestamp' and not
\* 'state'
DateLike(c) == c = "ship_date"

\* lines 64-65
ParseDates(R, cols) ==
    [i \in DOMAIN R |->
        [c \in cols |-> IF DateLike(c) THEN ToDatetime(R[i][c]) ELSE R[i][c]]]

\* line 69: 'unnamed' in col
Unnamed(c) == c = "unnamed: 0"

\* lines 69-71
DropUnnamed(F) ==
    [columns |-> {c \in F.columns : ~Unnamed(c)},
     rows |-> [i \in DOMAIN F.rows |->
                 [c \in {x \in F.columns : ~Unnamed(x)} |-> F.rows[i][c]]]]

\* lines 19-80 for one file: the frame that is written as the _cleaned file
PreprocessFile(F) ==
    LET named == RenameColumns(F)
        deduped == DropDuplicates(named.rows)
        filled == FillMean(deduped, named.columns)
        parsed == ParseDates(filled, named.columns)
    IN DropUnnamed([columns |-> named.columns, rows |-> parsed])

Done(name) == name \in DOMAIN out
Put(name, rows) == (name :> rows)

\* one block of the script: it runs in mode m, once, after the tables `after`
\* and adds the tables `new` to the derived tables
Derive(m, after, new) ==
    /\ pc = "tabs"
    /\ mode = m
    /\ \A a \in after : Done(a)
    /\ \A a \in DOMAIN new : ~Done(a)
    /\ out' = new @@ out
    /\ UNCHANGED runVars
    /\ UNCHANGED inVars

\* lines 96-99
DeriveDfDel ==
    /\ pc = "tabs"
    /\ Derive("main", {}, Put("df_del", DfDel(orders)))

\* lines 104-105: del_rev, then the bucket column of df_del
DeriveBucket ==
    /\ Done("df_del")
    /\ out["df_del"] # <<>>
    /\ Derive("main", {"df_del"},
              Put("del_rev", Merge(out["df_del"], order_reviews, "order_id"))
              @@ Put("bucketed", [i \in DOMAIN out["df_del"] |->
                     out["df_del"][i]
                     @@ [bucket |-> Bucket(out["df_del"][i].delivery_days)]]))

\* line 106
DeriveAggDel ==
    /\ pc = "tabs"
    /\ Done("bucketed")
    /\ \E observed \in BOOLEAN :
         Derive("main", {"bucketed"},
                Put("agg_del", AggDel(out["bucketed"], order_reviews, observed)))

\* lines 395-407: theme 1 of comparison mode, for a year of the selectbox
DeriveBrDel ==
    \E sel_y \in IF AllYears(orders) = {} THEN {Null}
                 ELSE {Some(y) : y \in AllYears(orders)} :
        Derive("compare", {},
               Put("br_del", BrDel(FOrd(orders, customers, sel_y))))

\* lines 482-483: theme 5 of comparison mode
DeriveDelay ==
    /\ pc = "tabs"
    /\ Derive("compare", {}, Put("d_r", DelayFrame(orders, order_reviews)))

\* lines 202-206
DerivePayDf ==
    /\ pc = "tabs"
    /\ Derive("main", {}, Put("pay_df", PayDf(payments, order_reviews)))

\* line 232
DeriveGeoRev ==
    /\ pc = "tabs"
    /\ Derive("main", {"pay_df"}, Put("geo_rev", GeoRev(orders, customers, payments)))

\* lines 296-301
DeriveRepurchase ==
    /\ pc = "tabs"
    /\ Derive("main", {"geo_rev"},
              Put("rep_data", RepData(OrdUsers(orders, customers)))
              @@ Put("ins1", Ins1(orders, customers, order_reviews, payments)))

\* lines 395-399: f_pay of comparison mode, for a year of the selectbox
DeriveFPay ==
    \E sel_y \in IF AllYears(orders) = {} THEN {Null}
                 ELSE {Some(y) : y \in AllYears(orders)} :
        Derive("compare", {},
               Put("f_pay", FPay(FOrd(orders, customers, sel_y), payments)))

\* line 105 on one duration
CutBucket ==
    /\ dur # Null
    /\ Derive("main", {}, Put("bucket", Bucket(dur)))

\* line 321 on one duration
CutSpeedTier ==
    /\ dur # Null
    /\ Derive("main", {"bucket"}, Put("speed_tier", SpeedTier(dur)))

\* lines 142-151: tab 1 with a delivered order; the sort of line 151 is the
\* sort of line 371 (the same call on the same cat_stats)
DeriveCatStats ==
    /\ pc = "tabs"
    /\ DfDel(orders) # <<>>
    /\ LET cat_df == CatDf(order_items, products, translation)
           cat_merged == CatMerged(cat_df, DfDel(orders), order_reviews)
       IN \E sorted \in SortValuesDesc(CatStats(cat_merged), "order_count") :
            Derive("main", {},
                   Put("cat_df", cat_df) @@ Put("cat_merged", cat_merged)
                   @@ Put("cat_stats", CatStats(cat_merged))
                   @@ Put("cat_stats_sorted", sorted)
                   @@ Put("top10", HeadN(sorted, Top10)))

\* line 145 without a delivered order: df_del has no delivery_days column
\* (line 97 was skipped) and df_del[['order_id', 'delivery_days']] raises
CatStatsRaises ==
    /\ pc = "tabs"
    /\ mode = "main"
    /\ DfDel(orders) = <<>>
    /\ pc' = "crashed"
    /\ UNCHANGED <<ki, files, p, found, loaded, diag, mode, theme, df_del>>
    /\ UNCHANGED dataVars

\* lines 367-371: tab 6
DeriveCatMonthly ==
    /\ pc = "tabs"
    /\ Done("cat_stats_sorted")
    /\ LET cat_ts == CatTs(CatDf(order_items, products, translation), orders)
       IN Derive("main", {"cat_stats"},
                 Put("cat_ts", cat_ts) @@ Put("cat_monthly", CatMonthly(cat_ts))
                 @@ Put("top5", HeadN(out["cat_stats_sorted"], Top5)))

\* line 320 on the price column of ins2_df
QCutPriceTier ==
    /\ pc = "tabs"
    /\ ~QCutRaises(inp)
    /\ Derive("main", {}, Put("price_tier", QCut(inp)))

\* line 320 when qcut raises: the exception ends the run
QCutPriceTierRaises ==
    /\ pc = "tabs"
    /\ mode = "main"
    /\ QCutRaises(inp)
    /\ pc' = "crashed"
    /\ UNCHANGED <<ki, files, p, found, loaded, diag, mode, theme, df_del>>
    /\ UNCHANGED dataVars

\* a call of fetch_naver_trend
CallFetchNaverTrend ==
    /\ pc = "tabs"
    /\ Derive("main", {}, Put("trend", FetchNaverTrend(inp)))

\* load_data on one dataset with its files in the two directories
LoadOneDataset ==
    /\ pc = "tabs"
    /\ Derive("main", {}, Put("resolved", LoadDataset(inp)))

\* lines 62-66
NormalizeTimestamps ==
    /\ pc = "tabs"
    /\ Derive("main", {}, Put("orders", NormalizeOrders(inp)))

\* preprocess_files on one file of the directory
PreprocessFiles ==
    /\ pc = "tabs"
    /\ Derive("main", {}, Put("cleaned", PreprocessFile(inp)))

\* no order_items, products and translation rows
NoCatalog ==
    /\ order_items = NoRows
    /\ products = NoRows
    /\ translation = NoRows

InitTabs(modes) ==
    /\ pc = "tabs"
    /\ ki = Len(Keys) + 1
    /\ files = NoProbe
    /\ p = NoPath
    /\ found = FALSE
    /\ loaded = [t \in Tables |-> ReadFile(t)]
    /\ diag = {}
    /\ mode \in modes
    /\ theme = 1
    /\ df_del = NoFrame
    /\ out = [n \in {} |-> NoRows]

\* the cells an orders row and its review are drawn from
PurchaseDays == {Null, Some(0)}
DeliveredDays == {Null, Some(3), Some(10), Some(101)}
EstimatedDays == {Some(7)}
Scores == {Null, Some(2), Some(5)}

OrderRow(i, c, pu, de, es) ==
    [order_id |-> i, customer_id |-> c,
     order_purchase_timestamp |-> pu,
     order_delivered_customer_date |-> de,
     order_estimated_delivery_date |-> es]

\* the reviews table of a score per order: at most one review per order
ReviewRows(sc) ==
    Flatten([i \in DOMAIN sc |->
        IF sc[i] = Null THEN <<>>
        ELSE <<[order_id |-> i, review_score |-> sc[i][1]]>>])

States == <<"SP", "RJ", "MG", "BA">>
CustomerRow(c, u) ==
    [customer_id |-> c, customer_unique_id |-> u,
     customer_state |-> States[((c - 1) % Len(States)) + 1]]

InitDelivery ==
    /\ InitTabs({"main", "compare"})
    /\ \E n \in 1..MaxOrders :
         /\ \E cell \in [1..n -> PurchaseDays \X DeliveredDays \X EstimatedDays] :
              orders = [i \in 1..n |->
                          OrderRow(i, i, cell[i][1], cell[i][2], cell[i][3])]
         /\ \E sc \in [1..n -> Scores] : order_reviews = ReviewRows(sc)
         /\ customers = [i \in 1..n |-> CustomerRow(i, i)]
    /\ payments = NoRows
    /\ NoCatalog
    /\ dur = Null
    /\ inp = Null

NextDelivery ==
    \/ DeriveDfDel
    \/ DeriveBucket
    \/ DeriveAggDel
    \/ DeriveBrDel
    \/ DeriveDelay

SpecDelivery == InitDelivery /\ [][NextDelivery]_vars

\* the payment rows of one order: none, one, or a split payment
PaymentValues == {<<>>, <<30>>, <<30, 20>>}
PaymentRows(pv) ==
    Flatten([i \in DOMAIN pv |->
        [j \in 1..Len(pv[i]) |->
            [order_id |-> i, payment_type |-> "credit_card",
             payment_installments |-> 1, payment_value |-> pv[i][j]]]])

InitCustomer ==
    /\ InitTabs({"main", "compare"})
    /\ \E n \in 1..MaxOrders :
         /\ \E c \in [1..n -> 1..MaxCustomers] :
              orders = [i \in 1..n |-> OrderRow(i, c[i], Some(0), Some(3), Some(7))]
         /\ \E sc \in [1..n -> Scores] : order_reviews = ReviewRows(sc)
         /\ \E pv \in [1..n -> PaymentValues] : payments = PaymentRows(pv)
    /\ \E u \in [1..MaxCustomers -> 1..MaxCustomers] :
         customers = [c \in 1..MaxCustomers |-> CustomerRow(c, u[c])]
    /\ NoCatalog
    /\ dur = Null
    /\ inp = Null

NextCustomer ==
    \/ DerivePayDf
    \/ DeriveGeoRev
    \/ DeriveRepurchase
    \/ DeriveFPay

SpecCustomer == InitCustomer /\ [][NextCustomer]_vars

InitCut ==
    /\ InitTabs({"main"})
    /\ orders = NoRows
    /\ order_reviews = NoRows
    /\ payments = NoRows
    /\ customers = NoRows
    /\ NoCatalog
    /\ inp = Null
    /\ \E d \in 0..MaxDuration : dur = Some(d)

NextCut ==
    \/ CutBucket
    \/ CutSpeedTier

SpecCut == InitCut /\ [][NextCut]_vars

\* the catalog: every product has a category, a category may lack its
\* English name in the translation table
EnglishOf(c) == c + MaxCategories
ItemRow(i, o, pr) ==
    [order_item_id |-> i, order_id |-> o, product_id |-> pr]

InitCategory ==
    /\ InitTabs({"main"})
    /\ \E n \in 1..MaxOrders :
         /\ \E de \in [1..n -> {Null, Some(90)}] :
              orders = [i \in 1..n |->
                          OrderRow(i, i, Some(40 * (i - 1)), de[i], Some(50))]
         /\ order_reviews = ReviewRows([i \in 1..n |-> Some(5)])
         /\ \E m \in 1..MaxItems :
              \E it \in [1..m -> (1..n) \X (1..MaxProducts)] :
                order_items = [i \in 1..m |-> ItemRow(i, it[i][1], it[i][2])]
    /\ \E cat \in [1..MaxProducts -> 1..MaxCategories] :
         products = [q \in 1..MaxProducts |->
                       [product_id |-> q, product_category_name |-> cat[q]]]
    /\ \E tr \in SUBSET (1..MaxCategories) :
         translation = [i \in 1..Cardinality(tr) |->
                          [product_category_name |-> Ascending(tr)[i],
                           product_category_name_english |->
                               Some(EnglishOf(Ascending(tr)[i]))]]
    /\ payments = NoRows
    /\ customers = NoRows
    /\ dur = Null
    /\ inp = Null

NextCategory ==
    \/ DeriveCatStats
    \/ CatStatsRaises
    \/ DeriveCatMonthly

SpecCategory == InitCategory /\ [][NextCategory]_vars

\* the price column of ins2_df: the mean item price of each delivered and
\* reviewed order
InitTier ==
    /\ InitTabs({"main"})
    /\ orders = NoRows
    /\ order_reviews = NoRows
    /\ payments = NoRows
    /\ customers = NoRows
    /\ NoCatalog
    /\ dur = Null
    /\ \E n \in 1..MaxPrices : inp \in [1..n -> 1..MaxPrice]

NextTier ==
    \/ QCutPriceTier
    \/ QCutPriceTierRaises

SpecTier == InitTier /\ [][NextTier]_vars

\* the surroundings of one call of fetch_naver_trend
SecretStores == {"no_store", "no_section", "no_key", "empty", "ok"}
EnvValues == {"unset", "empty", "set"}
HttpOutcomes == {"json", "garbage", "non200", "error"}

InitTrend ==
    /\ InitTabs({"main"})
    /\ orders = NoRows
    /\ order_reviews = NoRows
    /\ payments = NoRows
    /\ customers = NoRows
    /\ NoCatalog
    /\ dur = Null
    /\ inp \in [secrets : SecretStores, env_id : EnvValues,
                env_secret : EnvValues, http : HttpOutcomes]

NextTrend == CallFetchNaverTrend

SpecTrend == InitTrend /\ [][NextTrend]_vars

\* one dataset on disk: DATA_1 exists or not (and holds no file when it does
\* not), and the files of the dataset in each directory
InitDirs ==
    /\ InitTabs({"main"})
    /\ orders = NoRows
    /\ order_reviews = NoRows
    /\ payments = NoRows
    /\ customers = NoRows
    /\ NoCatalog
    /\ dur = Null
    /\ \E d \in BOOLEAN, pr, fb \in [Paths -> FileStates] :
         /\ ~d => pr = NoProbe
         /\ inp = [data1 |-> d, primary |-> pr, fallback |-> fb]

NextDirs == LoadOneDataset

SpecDirs == InitDirs /\ [][NextDirs]_vars

\* the orders frame as read from a csv file: order_id and any of the three
\* timestamp columns, all of dtype object, with no row or more
RawCells == {Null, DateText(10), NoDateText}

InitNormalize ==
    /\ InitTabs({"main"})
    /\ orders = NoRows
    /\ order_reviews = NoRows
    /\ payments = NoRows
    /\ customers = NoRows
    /\ NoCatalog
    /\ dur = Null
    /\ \E cols \in SUBSET TimestampCols, n \in 0..MaxRows :
         \E cell \in [1..n -> [cols -> RawCells]] :
            inp = [columns |-> cols \cup {"order_id"},
                   rows |-> [i \in 1..n |->
                               [c \in cols \cup {"order_id"} |->
                                   IF c = "order_id" THEN Some(i) ELSE cell[i][c]]],
                   datetime |-> {}]

NextNormalize == NormalizeTimestamps

SpecNormalize == InitNormalize /\ [][NextNormalize]_vars

\* a file of the directory: a numeric column, a date column, and with or
\* without the index column a csv export leaves behind
Prices == {Null, Some(2), Some(4)}

InitPreprocess ==
    /\ InitTabs({"main"})
    /\ orders = NoRows
    /\ order_reviews = NoRows
    /\ payments = NoRows
    /\ customers = NoRows
    /\ NoCatalog
    /\ dur = Null
    /\ \E n \in 0..MaxRows, idx \in BOOLEAN :
         \E cell \in [1..n -> Prices \X RawCells] :
            LET cols == {" Price", "Ship_Date"}
                          \cup (IF idx THEN {"Unnamed: 0"} ELSE {})
            IN inp = [columns |-> cols,
                      rows |-> [i \in 1..n |->
                                  [c \in cols |->
                                      CASE c = " Price" -> cell[i][1]
                                        [] c = "Ship_Date" -> cell[i][2]
                                        [] c = "Unnamed: 0" -> Some(i - 1)]]]

NextPreprocess == PreprocessFiles

SpecPreprocess == InitPreprocess /\ [][NextPreprocess]_vars

-----------------------------------------------------------------------------
(* Properties of load_data and of the run (checked under Spec)             *)

\* the priority order the specification states for the candidate files
PriorityOrder ==
    << <<"_cleaned", ".parquet">>, <<"_cleaned", ".csv">>,
       <<"", ".parquet">>, <<"", ".csv">> >>

SetMin(S) == CHOOSE x \in S : \A y \in S : x <= y

\* load_data has just finished the iteration of key Keys[ki - 1]
KeyJustLoaded == pc = "load" /\ ki > 1
LastKey == Keys[ki - 1]

Existing == {i \in 1..Len(PriorityOrder) : files[PriorityOrder[i]] # "absent"}
Readable == {i \in 1..Len(PriorityOrder) : files[PriorityOrder[i]] = "ok"}

\* the candidates whose read was attempted and raised
ReadFailed ==
    {i \in 1..Len(PriorityOrder) :
        /\ files[PriorityOrder[i]] = "corrupt"
        /\ \A j \in Readable : i < j}

\* C1 (as stated): for each table the first candidate that exists, in the
\* order cleaned parquet, cleaned csv, raw parquet, raw csv, is the one
\* loaded; with a cleaned parquet and a raw csv both on disk the table is the
\* cleaned parquet.
C1_FirstExistingLoaded ==
    KeyJustLoaded /\ Existing # {} =>
        /\ found
        /\ p = PriorityOrder[SetMin(Existing)]
        /\ loaded[LastKey] = ReadFile(LastKey)

\* C1 (amended): for each table the first candidate, in that order, that
\* exists and can be read is the one loaded; with a readable cleaned parquet
\* and a raw csv both on disk the table is the cleaned parquet.
C1_FirstReadableLoaded ==
    KeyJustLoaded =>
        IF Readable = {}
        THEN ~found
        ELSE /\ found
             /\ p = PriorityOrder[SetMin(Readable)]
             /\ loaded[LastKey] = ReadFile(LastKey)

C1_Witness ==
    /\ KeyJustLoaded
    /\ files[<<"_cleaned", ".parquet">>] = "ok"
    /\ files[<<"", ".csv">>] = "ok"
    /\ p = <<"_cleaned", ".parquet">>
    /\ loaded[LastKey] = ReadFile(LastKey)

\* C2: a candidate that exists but cannot be parsed counts as not found:
\* probing goes on with the next candidate across both suffixes, nothing
\* escapes load_data, and a diagnostic naming the offending path is emitted.
C2_UnreadableSkippedWithDiagnostic ==
    KeyJustLoaded =>
        \A i \in ReadFailed :
            /\ pc # "crashed"
            /\ Readable # {} => found /\ p = PriorityOrder[SetMin(Readable)]
            /\ <<"unreadable", LastKey, PriorityOrder[i]>> \in diag

\* C3: a table with no candidate that can be loaded does not fail load_data:
\* the table is an empty table of that table's shape, and a diagnostic names
\* the missing logical table.
C3_MissingTableEmptyWithDiagnostic ==
    KeyJustLoaded /\ Readable = {} =>
        /\ pc # "crashed"
        /\ loaded[LastKey].empty
        /\ loaded[LastKey].columns = Schema[LastKey]
        /\ <<"missing", LastKey>> \in diag

\* C4: whatever tables are missing or unreadable, a run in either mode ends
\* without an unhandled exception.
C4_RunNeverCrashes == pc # "crashed"

-----------------------------------------------------------------------------
(* Properties of the delivery derivations (SpecDelivery, SpecCut)          *)

Rows(name) == IF Done(name) THEN Range(out[name]) ELSE {}

\* C5: an order row without a delivered timestamp never carries a derived
\* duration, delay flag or delay in days: it is not in df_del, and in the
\* delay scatter's table its delay is undefined, never 0.
C5_UndeliveredNeverDerived ==
    /\ \A r \in Rows("df_del") : r.order_delivered_customer_date # Null
    /\ \A r \in Rows("br_del") : r.order_delivered_customer_date # Null
    /\ \A r \in Rows("d_r") :
          r.order_delivered_customer_date = Null => r.delay = Null

\* C6: every row of df_del and of br_del has both its purchase and its
\* delivered timestamp.
C6_DeliveredRowsHaveBothTimestamps ==
    \A r \in Rows("df_del") \cup Rows("br_del") :
        /\ r.order_purchase_timestamp # Null
        /\ r.order_delivered_customer_date # Null

\* C7: every duration d >= 0 has exactly one bucket: 0-3 up to 3, 4-7 up to
\* 7, 8-14 up to 14, and 15+ for every d >= 15 without an upper limit.
C7_BucketPartition ==
    Done("bucket") =>
        out["bucket"] = Some(IF dur[1] <= 3 THEN "0-3"
                             ELSE IF dur[1] <= 7 THEN "4-7"
                             ELSE IF dur[1] <= 14 THEN "8-14"
                             ELSE "15+")

\* C8: every duration d has exactly one speed tier: fast up to 7, normal for
\* 8 to 14, slow for every d > 14 without an upper limit.
C8_SpeedTierPartition ==
    Done("speed_tier") =>
        out["speed_tier"] = Some(IF dur[1] <= 7 THEN "fast"
                                 ELSE IF dur[1] <= 14 THEN "normal"
                                 ELSE "slow")

-----------------------------------------------------------------------------
(* Properties of the repurchase and payment pipelines (SpecCustomer)       *)

\* the persons a customers row names
Persons == {c.customer_unique_id : c \in Range(customers)}

\* the distinct orders placed under any customer_id record of person u
OrdersOfPerson(u) ==
    {o.order_id : o \in {q \in Range(orders) :
        \E c \in Range(customers) :
            c.customer_id = q.customer_id /\ c.customer_unique_id = u}}

\* C9: is_repurchase of a customer_unique_id is true iff the distinct orders
\* under all its customer_id records number more than 1, and every review row
\* of ins1 carries the flag of its own customer_unique_id.
C9_RepurchaseByPerson ==
    Done("rep_data") =>
        /\ \A u \in Persons :
              OrdersOfPerson(u) # {} =>
                 \E i \in DOMAIN out["rep_data"] :
                    /\ out["rep_data"][i].customer_unique_id = u
                    /\ out["rep_data"][i].is_repurchase
                          = (Cardinality(OrdersOfPerson(u)) > 1)
                    /\ \A j \in DOMAIN out["rep_data"] :
                          out["rep_data"][j].customer_unique_id = u => j = i
        /\ \A r \in Rows("ins1") :
              r.is_repurchase = (Cardinality(OrdersOfPerson(r.customer_unique_id)) > 1)

\* one person, two orders under two different customer_id records, and a
\* review row flagged as a repurchase
C9_Witness ==
    /\ Done("ins1")
    /\ \E r \in Rows("ins1") :
          /\ r.is_repurchase
          /\ \E a, b \in Range(orders) :
                /\ a.order_id # b.order_id
                /\ a.customer_id # b.customer_id
                /\ {a.order_id, b.order_id} \subseteq OrdersOfPerson(r.customer_unique_id)

\* the sum of the payment rows of order o
PaymentTotal(o) ==
    SumSeq([i \in DOMAIN payments |->
               IF payments[i].order_id = o THEN payments[i].payment_value ELSE 0])

\* the per-order joins that carry payment data
PaymentJoins == {"pay_df", "geo_rev", "ins1", "f_pay"}

\* C10: in every per-order join that uses payment data an order appears once
\* and with the total of its payment rows.
C10_PaymentsSummedBeforeJoin ==
    \A name \in PaymentJoins :
        Done(name) =>
            \A i \in DOMAIN out[name] :
                /\ out[name][i].payment_value = PaymentTotal(out[name][i].order_id)
                /\ \A j \in DOMAIN out[name] :
                      out[name][j].order_id = out[name][i].order_id => j = i

-----------------------------------------------------------------------------
(* Properties of the delivery aggregate (checked under SpecDelivery)       *)

\* the rows agg_del is computed from that fall in bucket l with delay flag d
Qualifying(l, d) ==
    {r \in Range(Merge(out["bucketed"], order_reviews, "order_id")) :
        r.bucket = Some(l) /\ r.is_delayed = d}

\* C12: the (bucket, is_delayed) aggregate has exactly one row for each key
\* pair that at least one reviewed delivery falls into, and no row, with a
\* NaN mean or otherwise, for any other pair.
C12_OneRowPerObservedGroup ==
    Done("agg_del") =>
        \A l \in Range(BucketLabels), d \in BOOLEAN :
            Cardinality({i \in DOMAIN out["agg_del"] :
                            /\ out["agg_del"][i].bucket = l
                            /\ out["agg_del"][i].is_delayed = d})
              = IF Qualifying(l, d) # {} THEN 1 ELSE 0

\* the single order of the worked example: purchased on day 0, delivered on
\* day 10, estimated for day 7, reviewed with score 2
WorkedExample ==
    /\ orders = <<OrderRow(1, 1, Some(0), Some(10), Some(7))>>
    /\ order_reviews = <<[order_id |-> 1, review_score |-> 2]>>

\* C13: for the worked example, delivery_days is 10, is_delayed is true and
\* agg_del is exactly the one group (8-14, delayed) with mean score 2.
C13_WorkedExampleOneGroup ==
    (WorkedExample /\ Done("agg_del")) =>
        /\ \A r \in Rows("df_del") :
              r.delivery_days = Some(10) /\ r.is_delayed
        /\ out["agg_del"] = <<[bucket |-> "8-14", is_delayed |-> TRUE,
                               review_score |-> <<2, 1>>]>>

\* C13, the part that holds: the derived values of the order and its group
C13_WorkedExampleGroupPresent ==
    (WorkedExample /\ Done("agg_del")) =>
        /\ \A r \in Rows("df_del") :
              r.delivery_days = Some(10) /\ r.is_delayed
        /\ [bucket |-> "8-14", is_delayed |-> TRUE, review_score |-> <<2, 1>>]
              \in Rows("agg_del")

-----------------------------------------------------------------------------
(* Properties of the category tables (checked under SpecCategory)          *)

\* the order items whose product is in the catalog and whose category has no
\* English name
Untranslated ==
    {it \in Range(order_items) :
        \E q \in Range(products) :
            /\ q.product_id = it.product_id
            /\ \A t \in Range(translation) :
                   t.product_category_name # q.product_category_name}

\* C11: an order item whose category has no English translation is kept by
\* the join and is counted: every row of cat_merged is counted in one group
\* of cat_stats, every row of cat_ts in one group of cat_monthly.
C11_UntranslatedItemsCounted ==
    /\ Done("cat_stats") =>
         /\ \A it \in Untranslated :
              \E r \in Rows("cat_df") : r.order_item_id = it.order_item_id
         /\ SumSeq(Values(out["cat_stats"], "order_count"))
              = Len(out["cat_merged"])
    /\ Done("cat_monthly") =>
         SumSeq(Values(out["cat_monthly"], "order_count")) = Len(out["cat_ts"])

\* C11, the part that holds: the left join keeps the item, with NaN as its
\* English name
C11_UntranslatedItemsKept ==
    Done("cat_stats") =>
        \A it \in Untranslated :
            \E r \in Rows("cat_df") :
                /\ r.order_item_id = it.order_item_id
                /\ r.product_category_name_english = Null


\* cat_stats by order count descending, equal counts by category name
\* ascending: the one order a sort with that tie-break gives
ByCountThenKey ==
    CHOOSE T \in SortValuesDesc(out["cat_stats"], "order_count") :
        \A i, j \in DOMAIN T :
            (i < j /\ T[i].order_count = T[j].order_count)
                => T[i].product_category_name_english
                     < T[j].product_category_name_english

\* C14: the top 10 and the top 5 categories by order count are fully
\* determined: ordered by the count descending, and categories with equal
\* counts by category name ascending.
C14_TopNTiesByKey ==
    /\ Done("top10") => out["top10"] = HeadN(ByCountThenKey, Top10)
    /\ Done("top5") => out["top5"] = HeadN(ByCountThenKey, Top5)

\* C14, the part that holds: the selections are ordered by the count
C14_TopNByMetric ==
    \A n \in {"top10", "top5"} :
        Done(n) => \A i, j \in DOMAIN out[n] :
                      i < j => out[n][i].order_count >= out[n][j].order_count

-----------------------------------------------------------------------------
(* Properties of the price tiers (checked under SpecTier)                  *)

\* the number of rows of tier l
TierSize(l) == Cardinality({i \in DOMAIN out["price_tier"] : out["price_tier"][i] = l})

\* C15: for every set of prices, equal prices and fewer than three distinct
\* prices included, the tiering completes and each of the three tiers gets
\* a third of the rows, rounded down or up.
C15_TiersCompleteAndEqualFrequency ==
    /\ pc # "crashed"
    /\ Done("price_tier") =>
         \A l \in Range(PriceLabels) :
            /\ NumTiers * TierSize(l) > Len(inp) - NumTiers
            /\ NumTiers * TierSize(l) < Len(inp) + NumTiers

\* C15, the part that holds: on two or more prices that are pairwise
\* different the tiering completes with tiers of a third of the rows each
C15_DistinctPricesEqualFrequency ==
    (Len(inp) > 1 /\ \A i, j \in DOMAIN inp : i # j => inp[i] # inp[j]) =>
        /\ pc # "crashed"
        /\ Done("price_tier") =>
             \A l \in Range(PriceLabels) :
                /\ NumTiers * TierSize(l) > Len(inp) - NumTiers
                /\ NumTiers * TierSize(l) < Len(inp) + NumTiers

-----------------------------------------------------------------------------
(* Properties of fetch_naver_trend (checked under SpecTrend)               *)

\* C16: fetch_naver_trend never raises, also when the credential lookup
\* fails for want of a secret store: it returns the parsed JSON for a 200
\* response with a JSON body, and None in every other case.
C16_FetchNeverRaises ==
    Done("trend") =>
        /\ out["trend"] # Raised
        /\ out["trend"] = "json" => inp.http = "json"

\* C16, the part that holds: once the credentials are looked up, every
\* failure of the request gives None
C16_RequestFailuresGiveNone ==
    (Done("trend") /\ GetNaverApiKeys(inp) # KeysRaised) =>
        /\ out["trend"] \in {"None", "json"}
        /\ out["trend"] = "json" => inp.http = "json"
        /\ inp.http # "json" => out["trend"] = "None"

-----------------------------------------------------------------------------
(* Properties of the directory choice of load_data (checked under SpecDirs) *)

\* a directory holds a candidate of the dataset that can be read
HoldsCandidate(fs) == \E q \in Paths : fs[q] = "ok"

\* C17: a dataset is resolved across the two directories: from DATA_1 when
\* DATA_1 holds a candidate, and from the directory of the script when
\* DATA_1 holds none and the directory of the script does.
C17_FallbackPerDataset ==
    Done("resolved") =>
        /\ HoldsCandidate(inp.primary) => out["resolved"].dir = "DATA_1"
        /\ (~HoldsCandidate(inp.primary) /\ HoldsCandidate(inp.fallback))
              => out["resolved"].dir = "base_path"

\* C17, the part that holds: DATA_1 is preferred, and the directory of the
\* script is used when there is no DATA_1 directory
C17_FallbackPerDirectory ==
    Done("resolved") =>
        /\ HoldsCandidate(inp.primary) => out["resolved"].dir = "DATA_1"
        /\ (~inp.data1 /\ HoldsCandidate(inp.fallback))
              => out["resolved"].dir = "base_path"

-----------------------------------------------------------------------------
(* Properties of the run without a delivered order (checked under Spec)    *)

\* every dataset was found and read
AllLoaded == \A t \in Tables : t \in DOMAIN loaded /\ loaded[t] = ReadFile(t)

\* the main dashboard ran line 96 and no order had a delivered timestamp
NoDeliveredOrder ==
    /\ mode = "main"
    /\ pc \notin {"load", "sidebar"}
    /\ df_del.columns # {}
    /\ df_del.empty

\* C18: with every table loaded and no delivered order (df_del empty), the
\* run continues through every tab of the main dashboard: no tab fails for
\* a column delivery_days or is_delayed that was never created.
C18_EmptyDfDelRunContinues ==
    (AllLoaded /\ NoDeliveredOrder) => pc # "crashed"

-----------------------------------------------------------------------------
(* Properties of the timestamp conversion (checked under SpecNormalize)    *)

\* the frame has the cells of inp, the cells of the timestamp columns parsed
CellsNormalized(F) ==
    /\ F.columns = inp.columns
    /\ Len(F.rows) = Len(inp.rows)
    /\ \A i \in DOMAIN F.rows, c \in F.columns :
          F.rows[i][c] =
             IF c \notin TimestampCols THEN inp.rows[i][c]
             ELSE IF inp.rows[i][c] = DateText(10)
                  THEN Some(10)
                  ELSE Null

\* C19: every one of the three timestamp columns that is present comes out
\* with a timestamp dtype, its unparsable and missing cells NaT and no cell
\* a default date; absent columns are not added and the other columns are
\* unchanged.
C19_TimestampColumnsNormalized ==
    Done("orders") =>
        /\ out["orders"].datetime = TimestampCols \cap inp.columns
        /\ CellsNormalized(out["orders"])

\* C19, the part that holds: the same for an orders frame with a row
C19_NonEmptyOrdersNormalized ==
    (Done("orders") /\ inp.rows # <<>>) =>
        /\ out["orders"].datetime = TimestampCols \cap inp.columns
        /\ CellsNormalized(out["orders"])

-----------------------------------------------------------------------------
(* Properties of preprocess_files (checked under SpecPreprocess)           *)

\* C20: the _cleaned file that preprocess_files writes has no two identical
\* rows, whatever the input file.
C20_CleanedRowsDistinct ==
    Done("cleaned") =>
        \A i, j \in DOMAIN out["cleaned"].rows :
            i # j => out["cleaned"].rows[i] # out["cleaned"].rows[j]

\* C20, the part that holds: the rows are distinct right after line 32
C20_DedupedRowsDistinct ==
    LET R == DropDuplicates(RenameColumns(inp).rows) IN
    /\ \A i, j \in DOMAIN R : i # j => R[i] # R[j]
    /\ Range(R) = Range(RenameColumns(inp).rows)

====
